---- MODULE Spec2Model ----
(***************************************************************************)
(* Model of bme680-influx (src/src/main.rs): the startup sequence of the   *)
(* BME680 sensor, the 60 s sampling loop, the readiness check, the four    *)
(* send_value calls and the future::try_join4 over the four write futures. *)
(*                                                                         *)
(* Library behaviour the program relies on:                                *)
(*  - futures_timer::Interval is an endless stream: next() never yields    *)
(*    None, so the Ok(()) of line 104 is not reachable and the loop only   *)
(*    leaves through a `?`.                                                *)
(*  - bme680's get_sensor_data reads the field registers; it does not      *)
(*    write the power-mode register, so the only measurement trigger is    *)
(*    set_sensor_mode(PowerMode::ForcedMode).                              *)
(*  - client.write_one(..).compat() builds a lazy future: the request is   *)
(*    started by its first poll.                                           *)
(*  - future::try_join4 polls its futures in argument order on every poll, *)
(*    resolves to Err as soon as one of them is seen to have failed        *)
(*    (dropping the others) and to Ok once all four are seen to have       *)
(*    succeeded.                                                           *)
(***************************************************************************)
EXTENDS Integers, Sequences, FiniteSets, TLC

\* ---------------------------------------------------------------- bounds
MaxTicks == 3          \* timer ticks delivered to the loop
MaxReading == 1        \* distinct sensor readings are 0..MaxReading

\* ------------------------------------------------------------- constants
NumWrites == 4         \* arity of try_join4 / number of send_value calls

Writes == 1..NumWrites

FieldDataConditions == {"NewData", "Unchanged"}

\* FieldData as seen through its four accessors; reading k is a snapshot
\* whose four quantities are pairwise different and different from those
\* of every other reading.
ReadingOf(k) ==
  [temperature_celsius |-> 20 + k,
   pressure_hpa        |-> 1000 + 10 * k,
   humidity_percent    |-> 40 + k,
   gas_resistance_ohm  |-> 5000 + 100 * k]

Readings == {ReadingOf(k) : k \in 0..MaxReading}

NoData == [temperature_celsius |-> 0, pressure_hpa |-> 0,
           humidity_percent |-> 0, gas_resistance_ohm |-> 0]

\* `x as f64`: widening of an f32 / u32 to f64 keeps the numeric value.
AsF64(x) == x

\* Value::Float(..)
Float(x) == [kind |-> "Float", v |-> x]

\* The type_name argument of the i-th send_value call of main.
TypeNameDup(i) ==
  CASE i = 1 -> "temperature"
    [] i = 2 -> "pressure"
    [] i = 3 -> "temperature"
    [] i = 4 -> "gasresistence"

TypeName(i) ==
  CASE i = 1 -> "temperature"
    [] i = 2 -> "pressure"
    [] i = 3 -> "humidity"
    [] i = 4 -> "gasresistence"

\* The value argument of the i-th send_value call of main.
ValueArgSwapped(d, i) ==
  CASE i = 1 -> Float(AsF64(d.temperature_celsius))
    [] i = 2 -> Float(AsF64(d.humidity_percent))
    [] i = 3 -> Float(AsF64(d.pressure_hpa))
    [] i = 4 -> Float(AsF64(d.gas_resistance_ohm))

ValueArg(d, i) ==
  CASE i = 1 -> Float(AsF64(d.temperature_celsius))
    [] i = 2 -> Float(AsF64(d.pressure_hpa))
    [] i = 3 -> Float(AsF64(d.humidity_percent))
    [] i = 4 -> Float(AsF64(d.gas_resistance_ohm))

\* The Measurement built by send_value and handed to client.write_one.
send_value(type_name, value) ==
  [name   |-> "sensor",
   fields |-> [value |-> value],
   tags   |-> [id |-> "MAC", name |-> "bme680", type |-> type_name]]

\* `if state != FieldDataCondition::NewData`
DispatchConditionFresh(s) == s = "NewData"

DispatchCondition(s) == s # "NewData"

\* ------------------------------------------------------------ try_join4
\* What a poll of one write future reports for the write's current state.
PollResult(s) ==
  CASE s = "ok"  -> "ready_ok"
    [] s = "err" -> "ready_err"
    [] OTHER     -> "pending"

\* Poll results on which TryJoin4::poll returns at once.
ReturnsOnAnyReady(r) == r \in {"ready_err", "ready_ok"}

ReturnsOnNever(r) == FALSE

ReturnsOn(r) == r = "ready_err"

\* Dropping the TryJoin4 drops the write futures that have not finished:
\* a request in flight is cancelled, a future never polled was never sent.
Cancel(n) ==
  [i \in Writes |->
     CASE n[i] \in {"inflight", "hung"} -> "cancelled"
       [] n[i] = "created"  -> "dropped"
       [] OTHER             -> n[i]]

NoWrites == [i \in Writes |-> "none"]

VARIABLES
  pc,          \* position of main
  exit,        \* "running", "err" (main returned Err(())), "panic"
  failure,     \* which fallible step failed: "none", "i2c", "init", ...
  settings,    \* number of set_sensor_settings calls
  triggers,    \* number of set_sensor_mode(ForcedMode) calls
  ticks,       \* number of items interval_s.next() has yielded
  reads,       \* number of get_sensor_data calls
  data,        \* the FieldData of the current cycle
  state,       \* the FieldDataCondition of the current cycle
  sendIdx,     \* next send_value call site of the cycle
  issued,      \* Measurements handed to client.write_one in this cycle
  writeCalls,  \* number of client.write_one calls since start
  net,         \* state of each write of the cycle
  pollIdx,     \* future polled next inside TryJoin4::poll, 0 = not polling
  allDone,     \* all_done of TryJoin4::poll
  joinRes,     \* output of try_join4(..).await: "none", "ok", "err"
  joinErr,     \* the write whose error the Err carries, 0 = none
  errCount,    \* number of "Error: .." lines written to stderr
  firstFail,   \* history: the write of the cycle that failed first, 0 = none
  prevData     \* history: the FieldData of the cycle before, now dropped

vars == <<pc, exit, failure, settings, triggers, ticks, reads, data, state,
          sendIdx, issued, writeCalls, net, pollIdx, allDone, joinRes,
          joinErr, errCount, firstFail, prevData>>

sensorVars == <<settings, triggers>>
cycleVars == <<data, state, sendIdx, issued, net, pollIdx, allDone, joinRes,
               joinErr, firstFail>>
countVars == <<ticks, reads, writeCalls, errCount>>

Init ==
  /\ pc = "i2c"
  /\ exit = "running"
  /\ failure = "none"
  /\ settings = 0
  /\ triggers = 0
  /\ ticks = 0
  /\ reads = 0
  /\ data = NoData
  /\ state = "none"
  /\ sendIdx = 0
  /\ issued = <<>>
  /\ writeCalls = 0
  /\ net = NoWrites
  /\ pollIdx = 0
  /\ allDone = FALSE
  /\ joinRes = "none"
  /\ joinErr = 0
  /\ errCount = 0
  /\ firstFail = 0
  /\ prevData = NoData

\* End of one pass of the loop body: data, state and the futures go out of
\* scope.
EndOfCycle ==
  /\ data' = NoData
  /\ state' = "none"
  /\ sendIdx' = 0
  /\ issued' = <<>>
  /\ net' = NoWrites
  /\ pollIdx' = 0
  /\ allDone' = FALSE
  /\ joinRes' = "none"
  /\ joinErr' = 0
  /\ firstFail' = 0
  /\ prevData' = data

\* `.map_err(|e| eprintln!(..))?` on an Err: main returns Err(()).
Abort(step) ==
  /\ pc' = "exited"
  /\ exit' = "err"
  /\ failure' = step

\* ---------------------------------------------------------------- startup
\* I2cdev::new("/dev/i2c-1").unwrap()
OpenI2c ==
  /\ pc = "i2c"
  /\ \E ok \in BOOLEAN :
       IF ok
         THEN pc' = "init" /\ UNCHANGED <<exit, failure>>
         ELSE pc' = "exited" /\ exit' = "panic" /\ failure' = "i2c"
  /\ UNCHANGED <<sensorVars, cycleVars, countVars, prevData>>

\* Bme680::init(i2c, Delay {}, I2CAddress::Primary).map_err(..)?
Bme680InitIgnoreErr ==
  /\ pc = "init"
  /\ \E ok \in BOOLEAN :
       IF ok
         THEN pc' = "settings" /\ UNCHANGED <<exit, failure>>
         ELSE pc' = "settings" /\ failure' = "init" /\ UNCHANGED exit
  /\ UNCHANGED <<sensorVars, cycleVars, countVars, prevData>>

Bme680Init ==
  /\ pc = "init"
  /\ \E ok \in BOOLEAN :
       IF ok
         THEN pc' = "settings" /\ UNCHANGED <<exit, failure>>
         ELSE Abort("init")
  /\ UNCHANGED <<sensorVars, cycleVars, countVars, prevData>>

\* SettingsBuilder::new()...build(); dev.set_sensor_settings(settings)?
SetSensorSettings ==
  /\ pc = "settings"
  /\ settings' = settings + 1
  /\ \E ok \in BOOLEAN :
       IF ok
         THEN pc' = "client" /\ UNCHANGED <<exit, failure>>
         ELSE Abort("settings")
  /\ UNCHANGED <<triggers, cycleVars, countVars, prevData>>

\* Credentials {..}; create_client(credentials, hosts)
CreateClient ==
  /\ pc = "client"
  /\ pc' = "mode"
  /\ UNCHANGED <<exit, failure, sensorVars, cycleVars, countVars, prevData>>

\* dev.set_sensor_mode(PowerMode::ForcedMode)?
SetSensorMode ==
  /\ pc = "mode"
  /\ triggers' = triggers + 1
  /\ \E ok \in BOOLEAN :
       IF ok
         THEN pc' = "interval" /\ UNCHANGED <<exit, failure>>
         ELSE Abort("mode")
  /\ UNCHANGED <<settings, cycleVars, countVars, prevData>>

\* Interval::new(Duration::from_secs(60))
NewInterval ==
  /\ pc = "interval"
  /\ pc' = "wait"
  /\ UNCHANGED <<exit, failure, sensorVars, cycleVars, countVars, prevData>>

\* ------------------------------------------------------------ the loop
\* `while let Some(_) = interval_s.next().await`: the timer yields an item.
TickRearm ==
  /\ pc = "wait"
  /\ ticks < MaxTicks
  /\ ticks' = ticks + 1
  /\ triggers' = triggers + 1
  /\ pc' = "read"
  /\ UNCHANGED <<exit, failure, settings, cycleVars, reads, writeCalls,
                 errCount, prevData>>

Tick ==
  /\ pc = "wait"
  /\ ticks < MaxTicks
  /\ ticks' = ticks + 1
  /\ pc' = "read"
  /\ UNCHANGED <<exit, failure, sensorVars, cycleVars, reads, writeCalls,
                 errCount, prevData>>

\* dev.get_sensor_data().map_err(..)? followed by the five println!. The
\* call is synchronous: it returns Ok, returns Err, or never returns.
GetSensorDataLogAndContinue ==
  /\ pc = "read"
  /\ reads' = reads + 1
  /\ \/ /\ \E d \in Readings, s \in FieldDataConditions :
             data' = d /\ state' = s
        /\ pc' = "check"
        /\ UNCHANGED <<exit, failure>>
     \/ /\ pc' = "wait"
        /\ failure' = "sensor"
        /\ UNCHANGED <<exit, data, state>>
  /\ UNCHANGED <<sensorVars, sendIdx, issued, net, pollIdx, allDone, joinRes,
                 joinErr, ticks, writeCalls, errCount, firstFail, prevData>>

GetSensorDataUseDefault ==
  /\ pc = "read"
  /\ reads' = reads + 1
  /\ \/ /\ \E d \in Readings, s \in FieldDataConditions :
             data' = d /\ state' = s
        /\ pc' = "check"
        /\ UNCHANGED <<exit, failure>>
     \/ /\ pc' = "check"
        /\ failure' = "sensor"
        /\ data' = NoData
        /\ state' = "Unchanged"
        /\ UNCHANGED exit
  /\ UNCHANGED <<sensorVars, sendIdx, issued, net, pollIdx, allDone, joinRes,
                 joinErr, ticks, writeCalls, errCount, firstFail, prevData>>

GetSensorData ==
  /\ pc = "read"
  /\ reads' = reads + 1
  /\ \/ /\ \E d \in Readings, s \in FieldDataConditions :
             data' = d /\ state' = s
        /\ pc' = "check"
        /\ UNCHANGED <<exit, failure>>
     \/ /\ Abort("sensor")
        /\ UNCHANGED <<data, state>>
     \/ /\ pc' = "read_blocked"
        /\ UNCHANGED <<exit, failure, data, state>>
  /\ UNCHANGED <<sensorVars, sendIdx, issued, net, pollIdx, allDone, joinRes,
                 joinErr, ticks, writeCalls, errCount, firstFail, prevData>>

\* `if state != FieldDataCondition::NewData { .. }`; when the condition is
\* false the loop body ends and the loop awaits the next tick.
CheckStatePollUntilReady ==
  /\ pc = "check"
  /\ IF DispatchCondition(state)
       THEN /\ pc' = "send"
            /\ sendIdx' = 1
            /\ UNCHANGED <<data, state, issued, net, pollIdx, allDone,
                           joinRes, joinErr, firstFail, prevData>>
       ELSE /\ pc' = "read"
            /\ EndOfCycle
  /\ UNCHANGED <<exit, failure, sensorVars, countVars>>

CheckState ==
  /\ pc = "check"
  /\ IF DispatchCondition(state)
       THEN /\ pc' = "send"
            /\ sendIdx' = 1
            /\ UNCHANGED <<data, state, issued, net, pollIdx, allDone,
                           joinRes, joinErr, firstFail, prevData>>
       ELSE /\ pc' = "wait"
            /\ EndOfCycle
  /\ UNCHANGED <<exit, failure, sensorVars, countVars>>

\* The sendIdx-th of the four `send_value(&client, name, value)` calls:
\* builds the Measurement and calls client.write_one(measurement, None),
\* which returns the (not yet polled) write future.
SendValueAwaitEach ==
  /\ pc = "send"
  /\ sendIdx \in Writes
  /\ issued' = Append(issued, send_value(TypeName(sendIdx),
                                         ValueArg(data, sendIdx)))
  /\ writeCalls' = writeCalls + 1
  /\ \/ /\ net' = [net EXCEPT ![sendIdx] = "ok"]
        /\ IF sendIdx < NumWrites
             THEN /\ sendIdx' = sendIdx + 1
                  /\ pc' = "send"
                  /\ UNCHANGED <<joinRes, joinErr>>
             ELSE /\ sendIdx' = sendIdx
                  /\ pc' = "joined"
                  /\ joinRes' = "ok"
                  /\ UNCHANGED joinErr
     \/ /\ net' = [net EXCEPT ![sendIdx] = "err"]
        /\ pc' = "joined"
        /\ joinRes' = "err"
        /\ joinErr' = sendIdx
        /\ UNCHANGED sendIdx
  /\ UNCHANGED <<exit, failure, sensorVars, data, state, pollIdx, allDone,
                 ticks, reads, errCount, firstFail, prevData>>

SendValueStale ==
  /\ pc = "send"
  /\ sendIdx \in Writes
  /\ issued' = Append(issued,
        send_value(TypeName(sendIdx),
                   ValueArg(IF sendIdx = NumWrites /\ prevData \in Readings
                              THEN prevData ELSE data, sendIdx)))
  /\ writeCalls' = writeCalls + 1
  /\ net' = [net EXCEPT ![sendIdx] = "created"]
  /\ IF sendIdx < NumWrites
       THEN sendIdx' = sendIdx + 1 /\ pc' = "send"
       ELSE sendIdx' = sendIdx /\ pc' = "join"
  /\ UNCHANGED <<exit, failure, sensorVars, data, state, pollIdx, allDone,
                 joinRes, joinErr, ticks, reads, errCount, firstFail,
                 prevData>>

SendValue ==
  /\ pc = "send"
  /\ sendIdx \in Writes
  /\ issued' = Append(issued, send_value(TypeName(sendIdx),
                                         ValueArg(data, sendIdx)))
  /\ writeCalls' = writeCalls + 1
  /\ net' = [net EXCEPT ![sendIdx] = "created"]
  /\ IF sendIdx < NumWrites
       THEN sendIdx' = sendIdx + 1 /\ pc' = "send"
       ELSE sendIdx' = sendIdx /\ pc' = "join"
  /\ UNCHANGED <<exit, failure, sensorVars, data, state, pollIdx, allDone,
                 joinRes, joinErr, ticks, reads, errCount, firstFail,
                 prevData>>

\* ------------------------------------------ try_join4(..).await, line 98
\* The task polls the TryJoin4: a pass over the four futures begins.
JoinPollStartTimeout ==
  /\ pc = "join"
  /\ pollIdx = 0
  /\ \/ /\ pollIdx' = 1
        /\ allDone' = TRUE
        /\ UNCHANGED <<pc, net, joinRes>>
     \/ /\ pc' = "joined"
        /\ joinRes' = "err"
        /\ net' = Cancel(net)
        /\ UNCHANGED <<pollIdx, allDone>>
  /\ UNCHANGED <<exit, failure, sensorVars, data, state, sendIdx, issued,
                 joinErr, countVars, firstFail, prevData>>

JoinPollStartNoWake ==
  /\ pc = "join"
  /\ pollIdx = 0
  /\ \A i \in Writes : net[i] = "created"
  /\ pollIdx' = 1
  /\ allDone' = TRUE
  /\ UNCHANGED <<pc, exit, failure, sensorVars, data, state, sendIdx, issued,
                 net, joinRes, joinErr, countVars, firstFail, prevData>>

JoinPollStartDetach ==
  /\ pc = "join"
  /\ pollIdx = 0
  /\ \/ /\ pollIdx' = 1
        /\ allDone' = TRUE
        /\ UNCHANGED pc
     \/ /\ pc' = "wait"
        /\ UNCHANGED <<pollIdx, allDone>>
  /\ UNCHANGED <<exit, failure, sensorVars, data, state, sendIdx, issued,
                 net, joinRes, joinErr, countVars, firstFail, prevData>>

JoinPollStart ==
  /\ pc = "join"
  /\ pollIdx = 0
  /\ pollIdx' = 1
  /\ allDone' = TRUE
  /\ UNCHANGED <<pc, exit, failure, sensorVars, data, state, sendIdx, issued,
                 net, joinRes, joinErr, countVars, firstFail, prevData>>

\* The first poll of a write future starts its request; the request is
\* then in flight, with an answer to come ("inflight") or with none ever
\* ("hung"), or its set-up fails on the spot.
StartedBy(s) == IF s = "created" THEN {"inflight", "hung", "err"} ELSE {s}

\* The first write of the cycle to fail: ff unless write i is the first.
FirstFailAfter(ff, i, failsNow) == IF ff = 0 /\ failsNow THEN i ELSE ff

\* One step of the pass: poll future pollIdx. An Err makes poll return
\* Ready(Err(e)) at once and the remaining futures are dropped; a Pending
\* clears all_done; after the fourth future the pass ends with
\* Ready(Ok(..)) when all_done and with Pending otherwise.
JoinPollFut ==
  /\ pc = "join"
  /\ pollIdx \in Writes
  /\ \E s \in StartedBy(net[pollIdx]) :
       LET r == PollResult(s)
           n == [net EXCEPT ![pollIdx] = s]
           done == allDone /\ r # "pending"
       IN /\ firstFail' = FirstFailAfter(firstFail, pollIdx,
                                         net[pollIdx] # "err" /\ s = "err")
          /\ IF ReturnsOn(r)
               THEN /\ net' = Cancel(n)
                    /\ joinRes' = IF r = "ready_err" THEN "err" ELSE "ok"
                    /\ joinErr' = IF r = "ready_err" THEN pollIdx ELSE 0
                    /\ pc' = "joined"
                    /\ pollIdx' = 0
                    /\ allDone' = FALSE
               ELSE /\ net' = n
                    /\ allDone' = done
                    /\ IF pollIdx < NumWrites
                         THEN /\ pollIdx' = pollIdx + 1
                              /\ UNCHANGED <<pc, joinRes, joinErr>>
                         ELSE /\ pollIdx' = 0
                              /\ IF done
                                   THEN /\ pc' = "joined"
                                        /\ joinRes' = "ok"
                                        /\ UNCHANGED joinErr
                                   ELSE UNCHANGED <<pc, joinRes, joinErr>>
  /\ UNCHANGED <<exit, failure, sensorVars, data, state, sendIdx, issued,
                 countVars, prevData>>

\* The database answers write i, or the transport fails: the request in
\* flight reaches its outcome.
WriteCompletes(i) ==
  /\ net[i] = "inflight"
  /\ \E o \in {"ok", "err"} :
       /\ net' = [net EXCEPT ![i] = o]
       /\ firstFail' = FirstFailAfter(firstFail, i, o = "err")
  /\ UNCHANGED <<pc, exit, failure, sensorVars, data, state, sendIdx, issued,
                 pollIdx, allDone, joinRes, joinErr, countVars, prevData>>

\* `if let Err(e) = .. { eprintln!("Error: {:?}", e) }`, then the end of
\* the loop body.
HandleJoinPropagate ==
  /\ pc = "joined"
  /\ IF joinRes = "err"
       THEN /\ errCount' = errCount + 1
            /\ Abort("write")
       ELSE /\ errCount' = errCount
            /\ pc' = "wait"
            /\ UNCHANGED <<exit, failure>>
  /\ EndOfCycle
  /\ UNCHANGED <<sensorVars, ticks, reads, writeCalls>>

HandleJoinLogEach ==
  /\ pc = "joined"
  /\ errCount' = errCount + Cardinality({i \in Writes : net[i] = "err"})
  /\ pc' = "wait"
  /\ EndOfCycle
  /\ UNCHANGED <<exit, failure, sensorVars, ticks, reads, writeCalls>>

HandleJoin ==
  /\ pc = "joined"
  /\ errCount' = IF joinRes = "err" THEN errCount + 1 ELSE errCount
  /\ pc' = "wait"
  /\ EndOfCycle
  /\ UNCHANGED <<exit, failure, sensorVars, ticks, reads, writeCalls>>

Next ==
  \/ OpenI2c
  \/ Bme680Init
  \/ SetSensorSettings
  \/ CreateClient
  \/ SetSensorMode
  \/ NewInterval
  \/ Tick
  \/ GetSensorData
  \/ CheckState
  \/ SendValue
  \/ JoinPollStart
  \/ JoinPollFut
  \/ \E i \in Writes : WriteCompletes(i)
  \/ HandleJoin

Spec == Init /\ [][Next]_vars

\* The steps of main's own task, as opposed to the progress of the
\* requests in flight.
MainStep ==
  \/ OpenI2c
  \/ Bme680Init
  \/ SetSensorSettings
  \/ CreateClient
  \/ SetSensorMode
  \/ NewInterval
  \/ Tick
  \/ GetSensorData
  \/ CheckState
  \/ SendValue
  \/ JoinPollStart
  \/ JoinPollFut
  \/ HandleJoin

\* The runtime keeps running main's task and the timer keeps firing
\* (weak fairness of main's steps); every request in flight that is not
\* hung is eventually answered (weak fairness of each WriteCompletes).
FairSpec ==
  /\ Init
  /\ [][Next]_vars
  /\ WF_vars(MainStep)
  /\ \A i \in Writes : WF_vars(WriteCompletes(i))

TypeOK ==
  /\ pc \in {"i2c", "init", "settings", "client", "mode", "interval", "wait",
             "read", "read_blocked", "check", "send", "join", "joined",
             "exited"}
  /\ exit \in {"running", "err", "panic"}
  /\ ticks \in 0..MaxTicks
  /\ reads \in 0..MaxTicks
  /\ net \in [Writes -> {"none", "created", "inflight", "hung", "ok", "err",
                         "cancelled", "dropped"}]
  /\ firstFail \in 0..NumWrites
  /\ prevData \in Readings \cup {NoData}
  /\ pollIdx \in 0..NumWrites
  /\ joinRes \in {"none", "ok", "err"}

\* ================================================================ claims
MetricNames == {"temperature", "pressure", "humidity", "gasresistence"}

IssuedAs(n) == {i \in 1..Len(issued) : issued[i].tags.type = n}

FourIssued ==
  /\ Len(issued) = 4
  /\ \A n \in MetricNames : Cardinality(IssuedAs(n)) = 1
  /\ \A i \in 1..Len(issued) : issued[i].tags.type \in MetricNames

Succeeded == {i \in Writes : net[i] = "ok"}
Failed == {i \in Writes : net[i] = "err"}
Unfinished == {i \in Writes : net[i] \in {"cancelled", "dropped"}}

C2_SuccessIffAllSucceed ==
  /\ [](pc = "joined" =>
          /\ joinRes \in {"ok", "err"}
          /\ joinRes = "ok" <=> Succeeded = Writes
          /\ joinRes = "err" <=> Failed # {})
  /\ [][pc = "joined" =>
          errCount' = errCount + (IF joinRes = "err" THEN 1 ELSE 0)]_vars

\* One of the four writes failed, the other three succeeded, and the
\* dispatch reported the failure.
C2_Witness ==
  /\ pc = "joined"
  /\ joinRes = "err"
  /\ Cardinality(Failed) = 1
  /\ Cardinality(Succeeded) = 3

\* C3: in a cycle whose reading has a state other than NewData, once the
\* send_value calls are over (the join is awaited or has returned, or the
\* cycle ends) exactly four write calls have been issued: one for each of
\* temperature, pressure, humidity and gasresistence and no other name;
\* never more than four are issued in a cycle.
C3_ExactlyFourWrites ==
  /\ [](Len(issued) <= 4)
  /\ []((state \in FieldDataConditions /\ state # "NewData"
            /\ pc \notin {"check", "send"}) => FourIssued)
  /\ [][(state \in FieldDataConditions /\ state # "NewData"
            /\ state' = "none") => FourIssued]_vars

\* A dispatching cycle has issued its writes and awaits the join.
C3_Witness ==
  /\ pc = "join"
  /\ state = "Unchanged"
  /\ Len(issued) = 4
  /\ {issued[i].tags.type : i \in 1..4} = MetricNames

\* C4: a cycle whose reading has state NewData issues no write call: from
\* the readiness check the loop goes straight back to waiting for the timer,
\* and no send_value, join or write ever runs with that state.
C4_SkipWhenNewData ==
  /\ [](state = "NewData" => pc = "check" /\ issued = <<>> /\ net = NoWrites)
  /\ [][pc = "check" /\ state = "NewData" =>
          pc' = "wait" /\ writeCalls' = writeCalls /\ issued' = <<>>]_vars

\* Two cycles have read the sensor and been skipped, no write was ever
\* issued, and the loop waits for the timer again.
C4_Witness ==
  /\ pc = "wait"
  /\ ticks = 2
  /\ reads = 2
  /\ writeCalls = 0
  /\ failure = "none"

\* C5: a failed dispatch never ends the process: the step after a join
\* that returned Err leads back to waiting for the timer with the process
\* running; afterwards a tick leads to the sensor read and the read is
\* performed; once write failures have been logged the process can only
\* have ended through a failed sensor read.
C5_WriteFailureNotFatal ==
  /\ [][pc = "joined" /\ joinRes = "err" =>
          pc' = "wait" /\ exit' = "running" /\ failure' = failure]_vars
  /\ [][errCount > 0 /\ pc = "wait" =>
          pc' = "read" /\ ticks' = ticks + 1]_vars
  /\ [][errCount > 0 /\ pc = "read" => reads' = reads + 1]_vars
  /\ [](errCount > 0 /\ exit # "running" => failure = "sensor")
  /\ [](errCount > 0 /\ pc = "exited" => exit # "running")

\* After a cycle whose dispatch failed, the next cycle has read the sensor.
C5_Witness ==
  /\ errCount >= 1
  /\ pc = "check"
  /\ reads >= 2
  /\ exit = "running"

\* C6: when get_sensor_data fails the process has ended with an error in
\* that cycle: the read was not repeated, no write was issued in the cycle,
\* and from then on no tick, read or write happens.
C6_SensorErrorFatal ==
  /\ [](failure = "sensor" =>
          /\ pc = "exited"
          /\ exit = "err"
          /\ issued = <<>>
          /\ net = NoWrites
          /\ reads = ticks)
  /\ [][failure = "sensor" =>
          /\ pc' = "exited"
          /\ ticks' = ticks
          /\ reads' = reads
          /\ writeCalls' = writeCalls]_vars

\* The sensor read failed in the second cycle, after a first cycle that
\* dispatched.
C6_Witness ==
  /\ failure = "sensor"
  /\ ticks = 2
  /\ writeCalls = 4

\* C7: when opening the sensor, applying the settings or setting forced
\* mode fails, the process has ended without consuming a tick, reading the
\* sensor or issuing a write.
C7_StartupFailureAborts ==
  failure \in {"i2c", "init", "settings", "mode"} =>
    /\ pc = "exited"
    /\ exit # "running"
    /\ ticks = 0
    /\ reads = 0
    /\ writeCalls = 0
    /\ issued = <<>>

\* Setting forced mode failed after the settings had been applied.
C7_Witness ==
  /\ failure = "mode"
  /\ settings = 1
  /\ pc = "exited"

\* C8: get_sensor_data is invoked exactly once per tick: the number of
\* reads equals the number of ticks, except between a tick and its read,
\* where it is one less; there is never a read without its tick.
C8_OneReadPerTick ==
  /\ reads = (IF pc = "read" THEN ticks - 1 ELSE ticks)
  /\ reads <= ticks

\* Two ticks have been delivered, without a sensor error, and two reads
\* made.
C8_Witness ==
  /\ ticks = 2
  /\ reads = 2
  /\ failure = "none"
  /\ pc \in {"check", "wait"}

\* C9: every read of sensor data is preceded by a measurement trigger of
\* its own (set_sensor_mode(ForcedMode)): no two reads share one trigger,
\* so there are never more reads than triggers.
C9_TriggerPerRead ==
  reads <= triggers

QuantityOf(d, n) ==
  CASE n = "temperature"   -> d.temperature_celsius
    [] n = "pressure"      -> d.pressure_hpa
    [] n = "humidity"      -> d.humidity_percent
    [] n = "gasresistence" -> d.gas_resistance_ohm

\* C11: every write request issued is a point named "sensor" with exactly
\* one field, value, holding as a Float the numeric value of the quantity
\* its type tag names, taken unchanged from the cycle's reading, and with
\* exactly the tags id = "MAC", name = "bme680" and type = a metric name.
C11_MeasurementShape ==
  \A i \in 1..Len(issued) :
    /\ issued[i].name = "sensor"
    /\ DOMAIN issued[i].fields = {"value"}
    /\ DOMAIN issued[i].tags = {"id", "name", "type"}
    /\ issued[i].tags.id = "MAC"
    /\ issued[i].tags.name = "bme680"
    /\ issued[i].tags.type \in MetricNames
    /\ issued[i].fields.value =
         [kind |-> "Float", v |-> QuantityOf(data, issued[i].tags.type)]

\* The four writes of a cycle that read reading 1 have been issued, the
\* humidity write carrying 41 and the pressure write 1010.
C11_Witness ==
  /\ Len(issued) = 4
  /\ data = ReadingOf(1)
  /\ \E i, j \in 1..4 :
       /\ issued[i].tags.type = "humidity" /\ issued[i].fields.value.v = 41
       /\ issued[j].tags.type = "pressure" /\ issued[j].fields.value.v = 1010

\* C12: the sensor settings are applied at most once and forced mode is
\* set at most once, in the order init, set_sensor_settings,
\* set_sensor_mode, first tick; both have happened exactly once when the
\* first tick arrives, and neither is repeated from then on.
C12_ConfigureOnce ==
  /\ [](settings <= 1 /\ triggers <= 1)
  /\ [](pc \in {"i2c", "init"} => settings = 0)
  /\ [](triggers = 1 => settings = 1)
  /\ [](ticks >= 1 => settings = 1 /\ triggers = 1)
  /\ [][ticks' >= 1 => settings' = settings /\ triggers' = triggers]_vars

\* The second cycle has read the sensor; settings and mode were each set
\* once.
C12_Witness ==
  /\ ticks = 2
  /\ pc = "check"
  /\ settings = 1
  /\ triggers = 1

\* C13: within a cycle the readiness check, the send_value calls and the
\* join only happen after that cycle's sensor read has succeeded, and a
\* write call is only issued after the check found a state other than
\* NewData; no write is issued before or without a successful read in its
\* cycle.
C13_ReadCheckSendOrder ==
  /\ [](pc \in {"check", "send", "join", "joined"} =>
          /\ data \in Readings
          /\ state \in FieldDataConditions
          /\ reads = ticks
          /\ failure = "none")
  /\ [](issued # <<>> =>
          /\ pc \in {"send", "join", "joined"}
          /\ state \in FieldDataConditions
          /\ state # "NewData"
          /\ data \in Readings)
  /\ [][writeCalls' # writeCalls =>
          /\ pc = "send"
          /\ state \in FieldDataConditions
          /\ data \in Readings
          /\ reads = ticks
          /\ failure = "none"]_vars

\* In the second cycle two of the four writes have been issued after the
\* read and the check.
C13_Witness ==
  /\ pc = "send"
  /\ ticks = 2
  /\ reads = 2
  /\ Len(issued) = 2
  /\ state = "Unchanged"

ValuesOf(d) == {d.temperature_celsius, d.pressure_hpa, d.humidity_percent,
                d.gas_resistance_ohm}

Hung == {i \in Writes : net[i] = "hung"}
InFlight == {i \in Writes : net[i] \in {"inflight", "hung"}}

\* C14: the values carried by the writes of a cycle are all taken from the
\* one reading returned by that cycle's sensor read; when the reading of
\* the cycle before was a different one, no write carries a value of it.
C14_ValuesFromOneReading ==
  issued # <<>> =>
    /\ data \in Readings
    /\ reads = ticks
    /\ \A i \in 1..Len(issued) :
         /\ issued[i].fields.value.v \in ValuesOf(data)
         /\ prevData # data => issued[i].fields.value.v \notin ValuesOf(prevData)

\* All four writes of a cycle are issued, and the cycle before had read a
\* different reading.
C14_Witness ==
  /\ Len(issued) = 4
  /\ prevData \in Readings
  /\ prevData # data
  /\ \A i \in 1..4 : issued[i].fields.value.v \in ValuesOf(data)

C16_LoopNeverExits ==
  /\ [](pc = "exited" =>
          failure \in {"i2c", "init", "settings", "mode", "sensor"})
  /\ [](pc = "read" =>
          <>(\/ pc = "wait"
             \/ failure = "sensor"
             \/ pc = "read_blocked"
             \/ Hung # {}))
  /\ <>(\/ ticks = MaxTicks /\ pc = "wait"
        \/ failure # "none"
        \/ pc = "read_blocked"
        \/ Hung # {})

\* Every tick has been taken and every cycle has finished, one of them
\* with a failed dispatch, and the loop waits for the timer.
C16_Witness ==
  /\ ticks = MaxTicks
  /\ pc = "wait"
  /\ failure = "none"
  /\ exit = "running"
  /\ errCount >= 1

\* C17 (as stated): the failure reported by the join carries the error of
\* the first write of the cycle to fail.
C17_FirstToFail ==
  (pc = "joined" /\ joinRes = "err") => joinErr = firstFail

\* C17 (amended): the failure reported by the join carries the error of
\* one of the writes that failed in that cycle, the one the join's polling
\* came upon, which is the first to fail when only one failed but need not
\* be when several did; exactly one error is logged per failing cycle and
\* none otherwise.
C17_OneErrorOfAFailedWrite ==
  /\ []((pc = "joined" /\ joinRes = "err") =>
          /\ joinErr \in Failed
          /\ firstFail \in Failed
          /\ Cardinality(Failed) = 1 => joinErr = firstFail)
  /\ []((pc = "joined" /\ joinRes = "ok") => joinErr = 0 /\ firstFail = 0)
  /\ [][errCount' # errCount =>
          (pc = "joined" /\ joinRes = "err" /\ errCount' = errCount + 1)]_vars
  /\ [][(pc = "joined" /\ joinRes = "err") => errCount' # errCount]_vars

\* Two writes failed and the join reported the one that failed second.
C17_Witness ==
  /\ pc = "joined"
  /\ joinRes = "err"
  /\ Cardinality(Failed) >= 2
  /\ joinErr # firstFail

\* C18: cycles do not overlap: while the loop waits for the timer, reads
\* the sensor or checks the state, no write future of any cycle exists and
\* no join is pending; a sensor read only starts in such a state; at most
\* four writes, those issued in the current cycle, are in flight.
C18_CyclesSerialized ==
  /\ [](pc \in {"wait", "read", "read_blocked", "check"} =>
          /\ net = NoWrites
          /\ joinRes = "none"
          /\ pollIdx = 0)
  /\ [](Cardinality(InFlight) <= Len(issued) /\ Len(issued) <= 4)
  /\ [][reads' # reads =>
          (InFlight = {} /\ \A i \in Writes : net[i] # "created")]_vars

\* The sensor read of the second cycle is about to start after a first
\* cycle that dispatched its four writes and whose join failed.
C18_Witness ==
  /\ pc = "read"
  /\ ticks = 2
  /\ writeCalls = 4
  /\ errCount = 1
====
